---------------------------- MODULE Spec2Model ----------------------------
(***************************************************************************)
(* Model of scripts/core.py of ui-ux-pro-max: the tokenizer, the BM25      *)
(* index, the exact-match booster, the result merger, the domain           *)
(* classifier and the search entry points.                                 *)
(*                                                                         *)
(* Text is a sequence of one-character strings.  Scores are fixed-point    *)
(* numbers: a score s of the program is the integer s * Scale here.        *)
(***************************************************************************)
EXTENDS Integers, Sequences, FiniteSets, TLC

VARIABLES
  bm25,         \* the fields of one BM25 object
  fitCount,     \* number of fit calls made on that object
  scored,       \* outcome of the last BM25.score call on that object
  fs,           \* the data directory: file name -> rows, or NoFile
  call,         \* the last call of an entry point: its name and arguments
  result,       \* what that call returned
  locals,       \* the local lists of that call (bm25_results, regex_results, merged)
  mono          \* two scorings of one document, before and after one more occurrence

indexVars  == <<bm25, fitCount, scored>>
searchVars == <<fs, call, result, locals>>
vars       == <<bm25, fitCount, scored, fs, call, result, locals, mono>>

(***************************************************************************)
(* Bounds of the model.                                                    *)
(***************************************************************************)
MaxRows  == 3      \* rows of a table
MaxK     == 2      \* largest max_results tried
MaxDocs  == 2      \* documents of a corpus given to fit directly
MaxFits  == 2      \* fit calls on one BM25 object
MaxWords == 2      \* words of a query given to detect_domain
Base     == 100    \* Scale = Base * Base: the fixed-point unit of a score
LnTerms  == 12     \* terms of the series that computes log
LongLen  == 200    \* repetitions of a term in the long query

Scale == Base * Base

(***************************************************************************)
(* Characters and text.                                                    *)
(***************************************************************************)
UpperCase == <<"A","B","C","D","E","F","G","H","I","J","K","L","M",
               "N","O","P","Q","R","S","T","U","V","W","X","Y","Z">>
LowerCase == <<"a","b","c","d","e","f","g","h","i","j","k","l","m",
               "n","o","p","q","r","s","t","u","v","w","x","y","z">>
Digits    == {"0","1","2","3","4","5","6","7","8","9"}

Range(s) == {s[i] : i \in DOMAIN s}

UpperSet == Range(UpperCase)
LowerSet == Range(LowerCase)

\* str.lower() on one character
LowerChar(c) ==
  IF c \in UpperSet
  THEN LowerCase[CHOOSE i \in DOMAIN UpperCase : UpperCase[i] = c]
  ELSE c

\* str.lower()
lower(text) == [i \in DOMAIN text |-> LowerChar(text[i])]

\* \w of the regular expressions
IsWordChar(c) == c \in UpperSet \cup LowerSet \cup Digits \cup {"_"}
\* \s of the regular expressions, and the separators of str.split()
IsSpace(c) == c \in {" ", "\t", "\n"}

Idx(n) == [i \in 1..n |-> i]

\* str.split(): the maximal runs of non-space characters, in order
split(t) ==
  LET n      == Len(t)
      starts == SelectSeq(Idx(n), LAMBDA i : ~IsSpace(t[i]) /\ (i = 1 \/ IsSpace(t[i - 1])))
      ends   == SelectSeq(Idx(n), LAMBDA i : ~IsSpace(t[i]) /\ (i = n \/ IsSpace(t[i + 1])))
  IN  [k \in 1..Len(starts) |-> SubSeq(t, starts[k], ends[k])]

\* " ".join(parts)
RECURSIVE join(_)
join(parts) ==
  IF Len(parts) = 0 THEN <<>>
  ELSE IF Len(parts) = 1 THEN parts[1]
  ELSE parts[1] \o <<" ">> \o join(Tail(parts))

\* needle in haystack (str.__contains__)
Contains(needle, haystack) ==
  \E i \in 0..(Len(haystack) - Len(needle)) :
    \A j \in 1..Len(needle) : haystack[i + j] = needle[j]

\* re.compile(re.escape(query), re.IGNORECASE).search(text) is not None
PatternSearch(query, text) ==
  \E i \in 0..(Len(text) - Len(query)) :
    \A j \in 1..Len(query) : LowerChar(text[i + j]) = LowerChar(query[j])

(***************************************************************************)
(* BM25                                                                    *)
(***************************************************************************)
\* k1 = 1.5 and b = 0.75 as fractions
K1Num == 3
K1Den == 2
BNum  == 3
BDen  == 4

\* BM25.tokenize
tokenize(text) ==
  LET lowered == lower(text)
      cleaned == [i \in DOMAIN lowered |->
                    IF IsWordChar(lowered[i]) \/ IsSpace(lowered[i])
                    THEN lowered[i] ELSE " "]
  IN  SelectSeq(split(cleaned), LAMBDA w : Len(w) > 2)

\* floor(a * Scale / c) without leaving 32 bits, for 0 <= a, 0 < c
ScaledDiv(a, c) ==
  LET q1 == (a * Base) \div c
      r1 == (a * Base) % c
  IN  q1 * Base + (r1 * Base) \div c

\* x * y / Scale for fixed-point x, y, rounded toward 0
FixMul(x, y) ==
  LET p == x * y
  IN  IF p >= 0 THEN p \div Scale ELSE -((-p) \div Scale)

\* sum over k = 0..n of zpow * z2^k / (2k+1), zpow and z2 fixed-point
RECURSIVE AtanhSeries(_, _, _, _)
AtanhSeries(zpow, z2, k, n) ==
  IF k > n \/ zpow = 0 THEN 0
  ELSE (IF zpow >= 0 THEN zpow \div (2 * k + 1) ELSE -((-zpow) \div (2 * k + 1)))
       + AtanhSeries(FixMul(zpow, z2), z2, k + 1, n)

\* math.log(num / den) in fixed point, for num, den > 0:
\* log(x) = 2 * atanh((x - 1) / (x + 1))
log(num, den) ==
  LET d  == num - den
      z  == IF d >= 0 THEN ScaledDiv(d, num + den) ELSE -ScaledDiv(-d, num + den)
  IN  2 * AtanhSeries(z, FixMul(z, z), 0, LnTerms)

\* log((N - freq + 0.5) / (freq + 0.5) + 1) = log((2N + 2) / (2 freq + 1))
Idf(N, freq) == log(2 * N + 2, 2 * freq + 1)

RECURSIVE sum(_)
sum(s) == IF Len(s) = 0 THEN 0 ELSE Head(s) + sum(Tail(s))

\* BM25.__init__; avgdl is the fraction num / den
BM25New ==
  [ corpus      |-> <<>>,
    doc_lengths |-> <<>>,
    avgdl       |-> [num |-> 0, den |-> 1],
    idf         |-> <<>>,
    doc_freqs   |-> <<>>,
    N           |-> 0 ]

\* BM25.fit: doc_freqs and idf are updated in place, never cleared
fit(self, documents) ==
  LET corpus == [i \in DOMAIN documents |-> tokenize(documents[i])]
      N      == Len(corpus)
  IN  IF N = 0
      THEN [self EXCEPT !.corpus = corpus, !.N = 0]
      ELSE
        LET doc_lengths == [i \in 1..N |-> Len(corpus[i])]
            words       == UNION {Range(corpus[i]) : i \in 1..N}
            old         == self.doc_freqs
            doc_freqs   == [w \in (DOMAIN old) \cup words |->
                              (IF w \in DOMAIN old THEN old[w] ELSE 0)
                              + Cardinality({i \in 1..N : w \in Range(corpus[i])})]
            idf         == [w \in (DOMAIN self.idf) \cup (DOMAIN doc_freqs) |->
                              IF w \in DOMAIN doc_freqs
                              THEN Idf(N, doc_freqs[w])
                              ELSE self.idf[w]]
        IN  [ corpus      |-> corpus,
              doc_lengths |-> doc_lengths,
              avgdl       |-> [num |-> sum(doc_lengths), den |-> N],
              idf         |-> idf,
              doc_freqs   |-> doc_freqs,
              N           |-> N ]

\* term_freqs[token] of one document
TermFreq(doc, token) == Cardinality({i \in DOMAIN doc : doc[i] = token})

\* TokenScore with numerator = k1 + 1, the factor tf left out
TokenScoreWithoutTf(self, doc, doc_len, token) ==
  LET tf  == TermFreq(doc, token)
      an  == self.avgdl.num
      ad  == self.avgdl.den
      num == (K1Num + K1Den) * BDen * an
      den == tf * K1Den * BDen * an
             + K1Num * ((BDen - BNum) * an + BNum * doc_len * ad)
  IN  FixMul(self.idf[token], ScaledDiv(num, den))

\* idf * numerator / denominator of one query token for one document:
\*   numerator   = tf * (k1 + 1)
\*   denominator = tf + k1 * (1 - b + b * doc_len / avgdl)
TokenScore(self, doc, doc_len, token) ==
  LET tf  == TermFreq(doc, token)
      an  == self.avgdl.num
      ad  == self.avgdl.den
      num == tf * (K1Num + K1Den) * BDen * an
      den == tf * K1Den * BDen * an
             + K1Num * ((BDen - BNum) * an + BNum * doc_len * ad)
  IN  FixMul(self.idf[token], ScaledDiv(num, den))

\* the loop over query_tokens[lo..hi] for one document (added up pairwise)
RECURSIVE DocScore(_, _, _, _, _, _)
DocScore(self, doc, doc_len, query_tokens, lo, hi) ==
  IF lo > hi THEN 0
  ELSE IF lo = hi
  THEN IF query_tokens[lo] \in DOMAIN self.idf
       THEN TokenScore(self, doc, doc_len, query_tokens[lo])
       ELSE 0
  ELSE LET mid == (lo + hi) \div 2
       IN  DocScore(self, doc, doc_len, query_tokens, lo, mid)
           + DocScore(self, doc, doc_len, query_tokens, mid + 1, hi)

\* InsertByScore that puts a pair before the pairs of equal score
RECURSIVE InsertBeforeEqual(_, _)
InsertBeforeEqual(sortedPairs, p) ==
  IF Len(sortedPairs) = 0 THEN <<p>>
  ELSE IF Head(sortedPairs)[2] > p[2]
  THEN <<Head(sortedPairs)>> \o InsertBeforeEqual(Tail(sortedPairs), p)
  ELSE <<p>> \o sortedPairs

\* sorted(pairs, key=lambda x: x[1], reverse=True): a stable sort, so pairs of
\* equal score keep their order
RECURSIVE InsertByScore(_, _)
InsertByScore(sortedPairs, p) ==
  IF Len(sortedPairs) = 0 THEN <<p>>
  ELSE IF Head(sortedPairs)[2] >= p[2]
  THEN <<Head(sortedPairs)>> \o InsertByScore(Tail(sortedPairs), p)
  ELSE <<p>> \o sortedPairs

RECURSIVE SortedByScore(_)
SortedByScore(pairs) ==
  IF Len(pairs) = 0 THEN <<>>
  ELSE InsertByScore(SortedByScore(SubSeq(pairs, 1, Len(pairs) - 1)), pairs[Len(pairs)])

\* doc_len / self.avgdl is evaluated for a document and a query token in idf
DividesByZero(self, query_tokens) ==
  /\ Len(self.corpus) > 0
  /\ self.avgdl.num = 0
  /\ \E j \in DOMAIN query_tokens : query_tokens[j] \in DOMAIN self.idf

\* BM25.score: the pairs (idx, score), idx from 0, or the fault it raises
score(self, query) ==
  LET query_tokens == tokenize(query)
  IN  IF DividesByZero(self, query_tokens)
      THEN [raised |-> "ZeroDivisionError", scores |-> <<>>]
      ELSE [raised |-> "",
            scores |-> SortedByScore(
              [i \in DOMAIN self.corpus |->
                 <<i - 1, DocScore(self, self.corpus[i], self.doc_lengths[i],
                                   query_tokens, 1, Len(query_tokens))>>])]


(***************************************************************************)
(* A BM25 object used directly: __init__, then fit and score in any order. *)
(***************************************************************************)
T_aaa     == <<"a","a","a">>
T_bbb     == <<"b","b","b">>
T_ccc     == <<"c","c","c">>
T_aaa_bbb == <<"a","a","a"," ","b","b","b">>
T_aaa_aaa == <<"a","a","a"," ","a","a","a">>
T_punct   == <<"!","!">>
T_empty   == <<>>

\* sequences over S of length 0..n
SeqsUpTo(S, n) == UNION {[1..k -> S] : k \in 0..n}

IndexDocs    == {T_empty, T_aaa, T_bbb, T_aaa_bbb, T_punct}
IndexQueries == {T_aaa, T_aaa_bbb, T_ccc}

NotScored == [called |-> FALSE, query |-> <<>>, raised |-> "", scores |-> <<>>]

IdleSearch == [fs |-> <<>>, call |-> [op |-> "none"], result |-> <<>>, locals |-> <<>>]
IdleMono   == [stage |-> "idle"]

SearchIdle == fs = IdleSearch.fs /\ call = IdleSearch.call
              /\ result = IdleSearch.result /\ locals = IdleSearch.locals

InitIndex ==
  /\ bm25 = BM25New
  /\ fitCount = 0
  /\ scored = NotScored
  /\ SearchIdle
  /\ mono = IdleMono

\* bm25 = BM25()
IndexNew ==
  /\ fitCount > 0
  /\ bm25' = BM25New
  /\ fitCount' = 0
  /\ scored' = NotScored
  /\ UNCHANGED <<searchVars, mono>>

\* bm25.fit(documents)
IndexFit(documents) ==
  /\ fitCount < MaxFits
  /\ bm25' = fit(bm25, documents)
  /\ fitCount' = fitCount + 1
  /\ scored' = NotScored
  /\ UNCHANGED <<searchVars, mono>>

\* bm25.score(query)
IndexScore(query) ==
  /\ scored' = [called |-> TRUE, query |-> query] @@ score(bm25, query)
  /\ UNCHANGED <<bm25, fitCount, searchVars, mono>>

NextIndex ==
  \/ IndexNew
  \/ \E documents \in SeqsUpTo(IndexDocs, MaxDocs) : IndexFit(documents)
  \/ \E query \in IndexQueries : IndexScore(query)

SpecIndex == InitIndex /\ [][NextIndex]_vars

\* the statistics of a corpus of token lists, computed from it alone
WordsOf(corpus) == UNION {Range(corpus[i]) : i \in DOMAIN corpus}
DocFreqOf(corpus, w) == Cardinality({i \in DOMAIN corpus : w \in Range(corpus[i])})

\* C9: after any sequence of fit calls the statistics the next score call uses
\* (doc_freqs, idf, doc_lengths, avgdl) are exactly those of the corpus of the
\* most recent fit; nothing of an earlier corpus carries over.
C9_StatsOfLastFitOnly ==
  (fitCount > 0 /\ bm25.N > 0) =>
    /\ DOMAIN bm25.doc_freqs = WordsOf(bm25.corpus)
    /\ \A w \in DOMAIN bm25.doc_freqs : bm25.doc_freqs[w] = DocFreqOf(bm25.corpus, w)
    /\ DOMAIN bm25.idf = WordsOf(bm25.corpus)
    /\ \A w \in DOMAIN bm25.idf : bm25.idf[w] = Idf(bm25.N, DocFreqOf(bm25.corpus, w))
    /\ bm25.doc_lengths = [i \in DOMAIN bm25.corpus |-> Len(bm25.corpus[i])]
    /\ bm25.avgdl = [num |-> sum(bm25.doc_lengths), den |-> bm25.N]

\* C7: score never divides by zero: after fit([]) it returns the empty
\* sequence, and on a non-empty corpus of documents without terms it returns
\* every row with score 0.
C7_ScoreNeverDividesByZero ==
  scored.called =>
    /\ scored.raised = ""
    /\ (bm25.N = 0 => scored.scores = <<>>)
    /\ (bm25.N > 0 /\ (\A i \in DOMAIN bm25.corpus : bm25.corpus[i] = <<>>)
          => scored.scores = [i \in DOMAIN bm25.corpus |-> <<i - 1, 0>>])


(***************************************************************************)
(* One document gains one more occurrence of a query term: the corpus is   *)
(* indexed and scored by a new BM25 object before and after.               *)
(***************************************************************************)
MonoDocs    == {T_empty, T_aaa, T_bbb}
MonoQueries == {T_aaa, T_aaa_bbb, T_aaa_aaa}

\* bm25 = BM25(); bm25.fit(documents); bm25.score(query), as a function idx -> score
ScoresOf(documents, query) ==
  LET pairs == score(fit(BM25New, documents), query).scores
  IN  [i \in {pairs[k][1] : k \in DOMAIN pairs} |->
         pairs[CHOOSE k \in DOMAIN pairs : pairs[k][1] = i][2]]

InitMono ==
  /\ bm25 = BM25New /\ fitCount = 0 /\ scored = NotScored
  /\ SearchIdle
  /\ \E documents \in SeqsUpTo(MonoDocs, MaxRows) \ {<<>>}, query \in MonoQueries :
       mono = [stage |-> "chosen", documents |-> documents, query |-> query]

\* score the corpus as it is
MonoScore ==
  /\ mono.stage = "chosen"
  /\ mono' = [stage |-> "scored", documents |-> mono.documents, query |-> mono.query,
              before |-> ScoresOf(mono.documents, mono.query)]
  /\ UNCHANGED <<indexVars, searchVars>>

\* replace document idx by a copy with one more occurrence of query term `term`,
\* and score again
MonoAddOccurrence(idx, term) ==
  /\ mono.stage = "scored"
  /\ LET documents == [mono.documents EXCEPT ![idx + 1] = @ \o <<" ">> \o term]
     IN  mono' = [stage |-> "rescored", documents |-> documents, query |-> mono.query,
                  idx |-> idx, term |-> term,
                  before |-> mono.before[idx],
                  after  |-> ScoresOf(documents, mono.query)[idx]]
  /\ UNCHANGED <<indexVars, searchVars>>

NextMono ==
  \/ MonoScore
  \/ /\ mono.stage = "scored"
     /\ \E idx \in 0..(Len(mono.documents) - 1), term \in Range(tokenize(mono.query)) :
          MonoAddOccurrence(idx, term)

SpecMono == InitMono /\ [][NextMono]_vars

\* C6 as stated: one more occurrence of a query term in a document never
\* decreases that document's score, for every corpus and every query.
C6_MonotoneAnyQuery ==
  mono.stage = "rescored" => mono.after >= mono.before

\* C6 amended: the same, for the queries all of whose terms are one term.
C6_MonotoneOneTermQuery ==
  (mono.stage = "rescored" /\ Cardinality(Range(tokenize(mono.query))) = 1)
    => mono.after >= mono.before

\* a one-term query (the term twice) was scored again and the score went up
C6_Witness ==
  /\ mono.stage = "rescored"
  /\ mono.query = T_aaa_aaa
  /\ Len(mono.documents) > 1
  /\ mono.before > 0
  /\ mono.after > mono.before


(***************************************************************************)
(* Configuration                                                           *)
(***************************************************************************)
CSV_CONFIG ==
  "style" :> [file |-> "styles.csv",
       search_cols |-> <<"Style Category", "Keywords", "Best For", "Type">>,
       output_cols |-> <<"Style Category", "Type", "Keywords", "Primary Colors", "Effects & Animation", "Best For", "Performance", "Accessibility", "Framework Compatibility", "Complexity">>]
  @@ "prompt" :> [file |-> "prompts.csv",
       search_cols |-> <<"Style Category", "AI Prompt Keywords (Copy-Paste Ready)", "CSS/Technical Keywords">>,
       output_cols |-> <<"Style Category", "AI Prompt Keywords (Copy-Paste Ready)", "CSS/Technical Keywords", "Implementation Checklist">>]
  @@ "color" :> [file |-> "colors.csv",
       search_cols |-> <<"Product Type", "Keywords", "Notes">>,
       output_cols |-> <<"Product Type", "Keywords", "Primary (Hex)", "Secondary (Hex)", "CTA (Hex)", "Background (Hex)", "Text (Hex)", "Border (Hex)", "Notes">>]
  @@ "chart" :> [file |-> "charts.csv",
       search_cols |-> <<"Data Type", "Keywords", "Best Chart Type", "Accessibility Notes">>,
       output_cols |-> <<"Data Type", "Keywords", "Best Chart Type", "Secondary Options", "Color Guidance", "Accessibility Notes", "Library Recommendation", "Interactive Level">>]
  @@ "landing" :> [file |-> "landing.csv",
       search_cols |-> <<"Pattern Name", "Keywords", "Conversion Optimization", "Section Order">>,
       output_cols |-> <<"Pattern Name", "Keywords", "Section Order", "Primary CTA Placement", "Color Strategy", "Conversion Optimization">>]
  @@ "product" :> [file |-> "products.csv",
       search_cols |-> <<"Product Type", "Keywords", "Primary Style Recommendation", "Key Considerations">>,
       output_cols |-> <<"Product Type", "Keywords", "Primary Style Recommendation", "Secondary Styles", "Landing Page Pattern", "Dashboard Style (if applicable)", "Color Palette Focus">>]
  @@ "quick" :> [file |-> "quick-ref.csv",
       search_cols |-> <<"Style Name", "Best For", "Category">>,
       output_cols |-> <<"Style Name", "Type", "Best For", "Primary Colors", "Performance", "Accessibility", "Mobile", "Dark Mode">>]
  @@ "ux" :> [file |-> "ux-guidelines.csv",
       search_cols |-> <<"Category", "Issue", "Description", "Platform">>,
       output_cols |-> <<"Category", "Issue", "Platform", "Description", "Do", "Don't", "Code Example Good", "Code Example Bad", "Severity">>]
  @@ "typography" :> [file |-> "typography.csv",
       search_cols |-> <<"Font Pairing Name", "Category", "Mood/Style Keywords", "Best For", "Heading Font", "Body Font">>,
       output_cols |-> <<"Font Pairing Name", "Category", "Heading Font", "Body Font", "Mood/Style Keywords", "Best For", "Google Fonts URL", "CSS Import", "Tailwind Config", "Notes">>]

StackSearchCols == <<"Category", "Guideline", "Description", "Do", "Don't">>
StackOutputCols == <<"Category", "Guideline", "Description", "Do", "Don't", "Code Good", "Code Bad", "Severity", "Docs URL">>

\* the keys of STACK_CONFIG, in the order written
AVAILABLE_STACKS == <<"html-tailwind", "react", "nextjs", "vue", "svelte", "swiftui", "react-native", "flutter">>

StackFile ==
  "html-tailwind" :> "stacks/html-tailwind.csv"
  @@ "react" :> "stacks/react.csv"
  @@ "nextjs" :> "stacks/nextjs.csv"
  @@ "vue" :> "stacks/vue.csv"
  @@ "svelte" :> "stacks/svelte.csv"
  @@ "swiftui" :> "stacks/swiftui.csv"
  @@ "react-native" :> "stacks/react-native.csv"
  @@ "flutter" :> "stacks/flutter.csv"

STACK_CONFIG ==
  [stack \in Range(AVAILABLE_STACKS) |->
     [file |-> StackFile[stack], search_cols |-> StackSearchCols, output_cols |-> StackOutputCols]]

\* domain_keywords of detect_domain, in the order written
domain_keywords == <<
  [domain |-> "color", keywords |-> <<
     <<"c","o","l","o","r">>,
     <<"p","a","l","e","t","t","e">>,
     <<"h","e","x">>,
     <<"#">>,
     <<"r","g","b">>,
     <<"f","i","n","a","n","c","i","a","l">>,
     <<"s","a","l","e","s">>,
     <<"m","a","r","k","e","t","i","n","g">>,
     <<"h","e","a","l","t","h","c","a","r","e">>,
     <<"i","t">>,
     <<"d","e","v","o","p","s">>,
     <<"h","r">>>>],
  [domain |-> "chart", keywords |-> <<
     <<"c","h","a","r","t">>,
     <<"g","r","a","p","h">>,
     <<"v","i","s","u","a","l","i","z","a","t","i","o","n">>,
     <<"t","r","e","n","d">>,
     <<"b","a","r">>,
     <<"p","i","e">>,
     <<"s","c","a","t","t","e","r">>,
     <<"h","e","a","t","m","a","p">>,
     <<"f","u","n","n","e","l">>,
     <<"g","a","u","g","e">>,
     <<"l","i","n","e">>>>],
  [domain |-> "landing", keywords |-> <<
     <<"l","a","n","d","i","n","g">>,
     <<"p","a","g","e">>,
     <<"c","t","a">>,
     <<"c","o","n","v","e","r","s","i","o","n">>,
     <<"h","e","r","o">>,
     <<"t","e","s","t","i","m","o","n","i","a","l">>,
     <<"f","o","r","m">>,
     <<"p","r","i","c","i","n","g">>,
     <<"s","e","c","t","i","o","n">>>>],
  [domain |-> "product", keywords |-> <<
     <<"s","a","a","s">>,
     <<"e","c","o","m","m","e","r","c","e">>,
     <<"e","-","c","o","m","m","e","r","c","e">>,
     <<"f","i","n","t","e","c","h">>,
     <<"h","e","a","l","t","h","c","a","r","e">>,
     <<"g","a","m","i","n","g">>,
     <<"p","o","r","t","f","o","l","i","o">>,
     <<"a","g","e","n","c","y">>,
     <<"c","r","y","p","t","o">>,
     <<"s","o","c","i","a","l">>,
     <<"p","r","o","d","u","c","t","i","v","i","t","y">>>>],
  [domain |-> "prompt", keywords |-> <<
     <<"p","r","o","m","p","t">>,
     <<"c","s","s">>,
     <<"i","m","p","l","e","m","e","n","t","a","t","i","o","n">>,
     <<"v","a","r","i","a","b","l","e">>,
     <<"c","h","e","c","k","l","i","s","t">>,
     <<"c","o","d","e">>,
     <<"t","a","i","l","w","i","n","d">>,
     <<"s","t","y","l","e","d">>>>],
  [domain |-> "quick", keywords |-> <<
     <<"q","u","i","c","k">>,
     <<"s","u","m","m","a","r","y">>,
     <<"o","v","e","r","v","i","e","w">>,
     <<"a","l","l"," ","s","t","y","l","e","s">>,
     <<"l","i","s","t">>,
     <<"c","o","m","p","a","r","e">>>>],
  [domain |-> "style", keywords |-> <<
     <<"s","t","y","l","e">>,
     <<"d","e","s","i","g","n">>,
     <<"u","i">>,
     <<"m","i","n","i","m","a","l","i","s","m">>,
     <<"g","l","a","s","s","m","o","r","p","h","i","s","m">>,
     <<"n","e","u","m","o","r","p","h","i","s","m">>,
     <<"b","r","u","t","a","l","i","s","m">>,
     <<"d","a","r","k"," ","m","o","d","e">>,
     <<"f","l","a","t">>,
     <<"3","d">>,
     <<"a","u","r","o","r","a">>,
     <<"r","e","t","r","o">>>>],
  [domain |-> "ux", keywords |-> <<
     <<"u","x">>,
     <<"u","s","e","r"," ","e","x","p","e","r","i","e","n","c","e">>,
     <<"u","s","a","b","i","l","i","t","y">>,
     <<"a","c","c","e","s","s","i","b","i","l","i","t","y">>,
     <<"w","c","a","g">>,
     <<"t","o","u","c","h">>,
     <<"s","c","r","o","l","l">>,
     <<"a","n","i","m","a","t","i","o","n">>,
     <<"f","o","c","u","s">>,
     <<"k","e","y","b","o","a","r","d">>,
     <<"s","c","r","e","e","n"," ","r","e","a","d","e","r">>,
     <<"l","o","a","d","i","n","g">>,
     <<"e","r","r","o","r">>,
     <<"v","a","l","i","d","a","t","i","o","n">>,
     <<"f","e","e","d","b","a","c","k">>,
     <<"n","a","v","i","g","a","t","i","o","n">>,
     <<"m","o","b","i","l","e">>,
     <<"r","e","s","p","o","n","s","i","v","e">>,
     <<"p","e","r","f","o","r","m","a","n","c","e">>,
     <<"z","-","i","n","d","e","x">>,
     <<"o","v","e","r","f","l","o","w">>>>]
>>

(***************************************************************************)
(* Domain classifier                                                       *)
(***************************************************************************)
\* the inner loop of detect_domain: scores[domain] += 1 for every keyword found
RECURSIVE CountKeywords(_, _)
CountKeywords(keywords, query_lower) ==
  IF Len(keywords) = 0 THEN 0
  ELSE (IF Contains(Head(keywords), query_lower) THEN 1 ELSE 0)
       + CountKeywords(Tail(keywords), query_lower)

\* FirstMax that keeps the last of the largest values
LastMax(scores) ==
  CHOOSE i \in DOMAIN scores :
    /\ \A j \in DOMAIN scores : scores[j] <= scores[i]
    /\ \A j \in DOMAIN scores : j > i => scores[j] < scores[i]

\* max(scores, key=scores.get): the first key, in the order of the dict, whose
\* value is the largest
FirstMax(scores) ==
  CHOOSE i \in DOMAIN scores :
    /\ \A j \in DOMAIN scores : scores[j] <= scores[i]
    /\ \A j \in DOMAIN scores : j < i => scores[j] < scores[i]

detect_domain(query) ==
  LET query_lower == lower(query)
      scores == [i \in DOMAIN domain_keywords |->
                   CountKeywords(domain_keywords[i].keywords, query_lower)]
      best   == FirstMax(scores)
  IN  IF scores[best] > 0 THEN domain_keywords[best].domain ELSE "style"

(***************************************************************************)
(* Booster and merger                                                      *)
(***************************************************************************)
RegexScore == 100
MergeBonus == 50

\* row.get(col, "")
Get(row, col) == IF col \in DOMAIN row THEN row[col] ELSE <<>>

\* the row matches: some search column of the row holds the query
RowMatches(row, query, search_cols) ==
  \E c \in DOMAIN search_cols :
    search_cols[c] \in DOMAIN row /\ PatternSearch(query, row[search_cols[c]])

\* regex_search: (idx, 100) for every matching row, by ascending idx
regex_search(data, query, search_cols) ==
  LET hits == SelectSeq(Idx(Len(data)), LAMBDA i : RowMatches(data[i], query, search_cols))
  IN  [k \in DOMAIN hits |-> <<hits[k] - 1, RegexScore * Scale>>]

\* for idx, score in regex_results: if idx not in seen: append (idx, score + 50)
RECURSIVE MergeExact(_, _, _)
MergeExact(regex_results, merged, seen) ==
  IF Len(regex_results) = 0 THEN [merged |-> merged, seen |-> seen]
  ELSE LET idx == Head(regex_results)[1]
           sc  == Head(regex_results)[2]
       IN  IF idx \notin seen
           THEN MergeExact(Tail(regex_results),
                           Append(merged, <<idx, sc + MergeBonus * Scale>>),
                           seen \cup {idx})
           ELSE MergeExact(Tail(regex_results), merged, seen)

\* MergeScored that admits score >= 0
RECURSIVE MergeScoredFromZero(_, _, _)
MergeScoredFromZero(bm25_results, merged, seen) ==
  IF Len(bm25_results) = 0 THEN merged
  ELSE LET idx == Head(bm25_results)[1]
           sc  == Head(bm25_results)[2]
       IN  IF idx \notin seen /\ sc >= 0
           THEN MergeScoredFromZero(Tail(bm25_results), Append(merged, <<idx, sc>>),
                                    seen \cup {idx})
           ELSE MergeScoredFromZero(Tail(bm25_results), merged, seen)

\* for idx, score in bm25_results: if idx not in seen and score > 0: append
RECURSIVE MergeScored(_, _, _)
MergeScored(bm25_results, merged, seen) ==
  IF Len(bm25_results) = 0 THEN merged
  ELSE LET idx == Head(bm25_results)[1]
           sc  == Head(bm25_results)[2]
       IN  IF idx \notin seen /\ sc > 0
           THEN MergeScored(Tail(bm25_results), Append(merged, <<idx, sc>>), seen \cup {idx})
           ELSE MergeScored(Tail(bm25_results), merged, seen)

\* the merge of search_domain and of search_stack, up to merged.sort(...)
MergeAfterExact(exact, bm25_results) ==
  SortedByScore(MergeScored(bm25_results, exact.merged, exact.seen))

Merge(regex_results, bm25_results) ==
  MergeAfterExact(MergeExact(regex_results, <<>>, {}), bm25_results)

\* Truncate that keeps one entry more
TruncateOneMore(merged, max_results) ==
  SubSeq(merged, 1, IF max_results + 1 < Len(merged) THEN max_results + 1 ELSE Len(merged))

\* merged[:max_results], for max_results >= 0
Truncate(merged, max_results) ==
  SubSeq(merged, 1, IF max_results < Len(merged) THEN max_results ELSE Len(merged))

\* {col: row.get(col, "") for col in output_cols if col in row}
Project(row, output_cols) ==
  [col \in Range(output_cols) \cap DOMAIN row |-> Get(row, col)]

(***************************************************************************)
(* Search                                                                  *)
(***************************************************************************)
None == "None"     \* the argument is left out

Exists(file) == file \in DOMAIN fs
load_csv(file) == fs[file]

NoLocals == [ran |-> FALSE]

\* documents: the search columns of every row, joined by a space
Documents(data, search_cols) ==
  [i \in DOMAIN data |->
     join([c \in DOMAIN search_cols |-> Get(data[i], search_cols[c])])]

\* top_indices = [idx for idx, _ in merged[:max_results]]
TopIndices(top) == [k \in DOMAIN top |-> top[k][1]]

\* results: the rows of top_indices, projected on the output columns
Results(data, top_indices, output_cols) ==
  [k \in DOMAIN top_indices |-> Project(data[top_indices[k] + 1], output_cols)]

\* what one ranking leaves: its local lists and the rows it returns
RankedRun(config, data, scoredDocs, regex_results, merged, top_indices) ==
  [ ret    |-> [raised |-> scoredDocs.raised,
                results |-> Results(data, top_indices, config.output_cols)],
    locals |-> [ ran           |-> TRUE,
                 file          |-> config.file,
                 search_cols   |-> config.search_cols,
                 bm25_results  |-> scoredDocs.scores,
                 regex_results |-> regex_results,
                 merged        |-> merged,
                 top_indices   |-> top_indices ] ]

RankedMerged(config, data, scoredDocs, regex_results, merged, max_results) ==
  RankedRun(config, data, scoredDocs, regex_results, merged,
            TopIndices(Truncate(merged, max_results)))

RankedScored(config, data, scoredDocs, regex_results, max_results) ==
  RankedMerged(config, data, scoredDocs, regex_results,
               Merge(regex_results, scoredDocs.scores), max_results)

\* the common body of search_domain and search_stack, from load_csv on:
\* bm25 = BM25(); bm25.fit(documents); bm25.score(query); regex_search; merge
RankedData(query, config, data, max_results) ==
  RankedScored(config, data,
               score(fit(BM25New, Documents(data, config.search_cols)), query),
               regex_search(data, query, config.search_cols),
               max_results)

Ranked(query, config, max_results) ==
  RankedData(query, config, load_csv(config.file), max_results)

NoRun == [ret |-> [raised |-> "", results |-> <<>>], locals |-> NoLocals]

\* search_domain: the empty list for an unknown domain or a missing file
search_domain(query, domain, max_results) ==
  IF domain \notin DOMAIN CSV_CONFIG THEN NoRun
  ELSE IF ~Exists(CSV_CONFIG[domain].file) THEN NoRun
  ELSE Ranked(query, CSV_CONFIG[domain], max_results)

\* the dict search returns around the rows of search_domain
SearchReturn(query, domain, config, run) ==
  IF run.ret.raised # ""
  THEN [ret |-> [raised |-> run.ret.raised], locals |-> run.locals]
  ELSE [ret |-> [ domain  |-> domain,
                  query   |-> query,
                  file    |-> config.file,
                  count   |-> Len(run.ret.results),
                  results |-> run.ret.results ],
        locals |-> run.locals]

\* search, from config = CSV_CONFIG.get(domain, CSV_CONFIG["style"]) on
SearchConfigured(query, domain, config, max_results) ==
  IF ~Exists(config.file)
  THEN [ret |-> [error |-> <<"File not found: ", config.file>>, domain |-> domain],
        locals |-> NoLocals]
  ELSE SearchReturn(query, domain, config, search_domain(query, domain, max_results))

SearchResolved(query, domain, max_results) ==
  SearchConfigured(query, domain,
                   IF domain \in DOMAIN CSV_CONFIG THEN CSV_CONFIG[domain]
                                                   ELSE CSV_CONFIG["style"],
                   max_results)

\* search(query, domain, max_results)
search(query, domainArg, max_results) ==
  SearchResolved(query,
                 IF domainArg = None THEN detect_domain(query) ELSE domainArg,
                 max_results)

\* the dict search_stack returns around the ranked rows
StackReturn(query, stack, config, run) ==
  IF run.ret.raised # ""
  THEN [ret |-> [raised |-> run.ret.raised], locals |-> run.locals]
  ELSE [ret |-> [ domain  |-> "stack",
                  stack   |-> stack,
                  query   |-> query,
                  file    |-> config.file,
                  count   |-> Len(run.ret.results),
                  results |-> run.ret.results ],
        locals |-> run.locals]

\* search_stack(query, stack, max_results)
search_stack(query, stack, max_results) ==
  IF stack \notin DOMAIN STACK_CONFIG
  THEN [ret |-> [error |-> <<"Unknown stack: ", stack, ". Available: ", AVAILABLE_STACKS>>],
        locals |-> NoLocals]
  ELSE IF ~Exists(STACK_CONFIG[stack].file)
  THEN [ret |-> [error |-> <<"Stack file not found: ", STACK_CONFIG[stack].file>>,
                 stack |-> stack],
        locals |-> NoLocals]
  ELSE StackReturn(query, stack, STACK_CONFIG[stack],
                   Ranked(query, STACK_CONFIG[stack], max_results))

(***************************************************************************)
(* The entry points called on a data directory.  Every file of the         *)
(* directory holds the same table; its first two search columns are the    *)
(* columns of the file.                                                    *)
(***************************************************************************)
T_NeonGlow   == <<"N","e","o","n"," ","G","l","o","w">>
T_RetroWave  == <<"R","e","t","r","o"," ","W","a","v","e">>
T_Minimalist == <<"M","i","n","i","m","a","l","i","s","t"," ","C","l","e","a","n">>
T_Wave       == <<"W","a","v","e">>

Q_retro     == <<"r","e","t","r","o">>
Q_retroWave == <<"r","e","t","r","o"," ","w","a","v","e">>
Q_glowWave  == <<"g","l","o","w"," ","w","a","v","e">>
Q_darkMode  == <<"d","a","r","k"," ","m","o","d","e"," ","t","o","g","g","l","e"," ","a","c","c","e","s","s","i","b","i","l","i","t","y">>

\* the two cells of a row
RowPool == { <<T_NeonGlow, T_Wave>>, <<T_RetroWave, T_empty>>, <<T_Minimalist, T_empty>> }
Queries == { Q_retro, Q_retroWave, Q_glowWave, Q_darkMode, T_empty }

DomainArgs == { None, "style", "nosuch" }
StackArgs  == { "react", "nosuch" }

\* the data directories tried: the files present
Directories == { {"styles.csv", "colors.csv", "stacks/react.csv"}, {"colors.csv"} }

ConfigOfFile(file) ==
  IF \E d \in DOMAIN CSV_CONFIG : CSV_CONFIG[d].file = file
  THEN CSV_CONFIG[CHOOSE d \in DOMAIN CSV_CONFIG : CSV_CONFIG[d].file = file]
  ELSE STACK_CONFIG[CHOOSE k \in DOMAIN STACK_CONFIG : STACK_CONFIG[k].file = file]

\* csv.DictReader: one dict per row, keyed by the columns of the file
RowsOf(file, table) ==
  LET cols == ConfigOfFile(file).search_cols
  IN  [i \in DOMAIN table |-> (cols[1] :> table[i][1]) @@ (cols[2] :> table[i][2])]

IndexIdle == bm25 = BM25New /\ fitCount = 0 /\ scored = NotScored

InitDir(pool) ==
  /\ IndexIdle
  /\ mono = IdleMono
  /\ \E table \in SeqsUpTo(pool, MaxRows), files \in Directories :
       fs = [file \in files |-> RowsOf(file, table)]
  /\ call = [op |-> "none"]
  /\ result = <<>>
  /\ locals = NoLocals

\* the call returns: its dict, and the local lists it computed
Returns(out) == result' = out.ret /\ locals' = out.locals

\* a call is made when the previous one has returned and its result was taken
Search(query, domain, max_results) ==
  /\ call.op = "none"
  /\ call' = [op |-> "search", query |-> query, id |-> domain, max_results |-> max_results]
  /\ Returns(search(query, domain, max_results))
  /\ UNCHANGED <<indexVars, fs, mono>>

SearchStack(query, stack, max_results) ==
  /\ call.op = "none"
  /\ call' = [op |-> "search_stack", query |-> query, id |-> stack, max_results |-> max_results]
  /\ Returns(search_stack(query, stack, max_results))
  /\ UNCHANGED <<indexVars, fs, mono>>

\* the caller takes the result; nothing of the call is kept by the program
Return ==
  /\ call.op # "none"
  /\ call' = [op |-> "none"]
  /\ result' = <<>>
  /\ locals' = NoLocals
  /\ UNCHANGED <<indexVars, fs, mono>>

Init == InitDir(RowPool)

Next ==
  \/ \E query \in Queries, domain \in DomainArgs, max_results \in 0..MaxK :
       Search(query, domain, max_results)
  \/ \E query \in Queries, stack \in StackArgs, max_results \in 0..MaxK :
       SearchStack(query, stack, max_results)
  \/ Return

Spec == Init /\ [][Next]_vars

(***************************************************************************)
(* Properties of search and search_stack                                   *)
(***************************************************************************)
\* q occurs in t, letter case ignored
OccursIgnoringCase(q, t) ==
  \E i \in 1..(Len(t) - Len(q) + 1) :
    lower(SubSeq(t, i, i + Len(q) - 1)) = lower(q)

\* the rows the last ranking read, and their positions (from 0)
RankedRows == load_csv(locals.file)
Positions  == 0..(Len(RankedRows) - 1)

\* row position i is an exact match of the query of the last call
IsExactMatch(i) ==
  \E col \in Range(locals.search_cols) :
    /\ col \in DOMAIN RankedRows[i + 1]
    /\ OccursIgnoringCase(call.query, RankedRows[i + 1][col])

\* the BM25 score of row position i in bm25_results
Bm25ScoreAt(i) ==
  locals.bm25_results[CHOOSE k \in DOMAIN locals.bm25_results :
                        locals.bm25_results[k][1] = i][2]

\* the places of row position i in a list of (idx, score) pairs
PlacesOf(i, pairs) == {k \in DOMAIN pairs : pairs[k][1] = i}

IsExampleTable ==
  /\ Len(RankedRows) = 3
  /\ RankedRows[1][locals.search_cols[1]] = T_NeonGlow
  /\ RankedRows[2][locals.search_cols[1]] = T_RetroWave
  /\ RankedRows[3][locals.search_cols[1]] = T_Minimalist

\* C1: search with a table id that is no key of CSV_CONFIG returns an error
\* that names the id, and never a normal result made with another table's
\* configuration.
C1_UnknownTableIsError ==
  (call.op = "search" /\ call.id # None /\ call.id \notin DOMAIN CSV_CONFIG) =>
    /\ "error" \in DOMAIN result
    /\ \/ \E k \in DOMAIN result.error : result.error[k] = call.id
       \/ ("domain" \in DOMAIN result /\ result.domain = call.id)
    /\ "results" \notin DOMAIN result
    /\ "count" \notin DOMAIN result

\* C2: a row that holds the literal query is ranked above every row that does
\* not, whatever the BM25 score of the latter, and is not cut off while the
\* latter is returned.
C2_ExactMatchPrecedence ==
  locals.ran =>
    \A a \in Positions, b \in Positions :
      (IsExactMatch(a) /\ ~IsExactMatch(b) /\ PlacesOf(b, locals.merged) # {}) =>
        /\ \A ka \in PlacesOf(a, locals.merged), kb \in PlacesOf(b, locals.merged) : ka < kb
        /\ PlacesOf(a, locals.merged) # {}
        /\ (b \in Range(locals.top_indices) => a \in Range(locals.top_indices))

\* C3: before truncation a row position is in the merged list exactly once if
\* the row is an exact match or its BM25 score is above 0, and not at all
\* otherwise; for the three-row example and the query "retro" with K = 2
\* exactly the "Retro Wave" row is returned.
C3_AdmissionRule ==
  locals.ran =>
    /\ \A k \in DOMAIN locals.merged : locals.merged[k][1] \in Positions
    /\ \A i \in Positions :
         Cardinality(PlacesOf(i, locals.merged))
           = IF IsExactMatch(i) \/ Bm25ScoreAt(i) > 0 THEN 1 ELSE 0
    /\ (IsExampleTable /\ call.query = Q_retro /\ call.max_results = 2) =>
         (result.count = 1 /\ locals.top_indices = <<1>>)

\* the three-row example was searched for "retro" with K = 2: one row
C3_Witness ==
  /\ locals.ran
  /\ IsExampleTable
  /\ call.query = Q_retro
  /\ call.max_results = 2
  /\ result.count = 1
  /\ \E i \in Positions : ~IsExactMatch(i) /\ Bm25ScoreAt(i) = 0

\* C5: "dark mode toggle accessibility" is classified to "ux", and a search
\* without table id for it searches the ux table.
C5_DarkModeIsUx ==
  (call.op = "search" /\ call.id = None /\ call.query = Q_darkMode) =>
    /\ result.domain = "ux"
    /\ ("file" \in DOMAIN result => result.file = CSV_CONFIG["ux"].file)

\* C8: count is the number of rows returned and is at most max_results; with
\* max_results = 0 nothing is returned.
C8_CountAtMostK ==
  ("count" \in DOMAIN result) =>
    /\ result.count = Len(result.results)
    /\ result.count <= call.max_results
    /\ (call.max_results = 0 => result.results = <<>>)

\* max_results = 0 on a table with two or more rows to return
C8_Witness ==
  /\ locals.ran
  /\ call.max_results = 0
  /\ Len(locals.merged) >= 2
  /\ result.count = 0
  /\ result.results = <<>>

\* the pairs are by descending score, pairs of equal score by ascending idx
RankedInOrder(pairs) ==
  \A j \in DOMAIN pairs, k \in DOMAIN pairs :
    j < k => \/ pairs[j][2] > pairs[k][2]
             \/ (pairs[j][2] = pairs[k][2] /\ pairs[j][1] < pairs[k][1])

\* C10: score returns the rows by descending score, rows of equal score by
\* ascending position; the merged ranking keeps that rule, and the rows
\* returned are the first max_results of it.
C10_TiesByPosition ==
  locals.ran =>
    /\ RankedInOrder(locals.bm25_results)
    /\ RankedInOrder(locals.merged)
    /\ locals.top_indices =
         [k \in 1..(IF call.max_results < Len(locals.merged)
                    THEN call.max_results ELSE Len(locals.merged)) |->
            locals.merged[k][1]]

\* more exact matches than max_results, and two rows of equal positive BM25
\* score: the first positions are returned
C10_Witness ==
  /\ locals.ran
  /\ call.max_results > 0
  /\ Len(locals.regex_results) > call.max_results
  /\ \E j \in DOMAIN locals.bm25_results, k \in DOMAIN locals.bm25_results :
       /\ j < k
       /\ locals.bm25_results[j][2] = locals.bm25_results[k][2]
       /\ locals.bm25_results[j][2] > 0
  /\ locals.top_indices = [k \in 1..call.max_results |-> k - 1]

(***************************************************************************)
(* A query of LongLen repetitions of one term, on tables of short rows and *)
(* of a row that holds the query.                                          *)
(***************************************************************************)
LongQuery == [i \in 1..(4 * LongLen - 1) |-> IF i % 4 = 0 THEN " " ELSE "a"]

LongRowPool == { <<LongQuery, T_empty>>, <<T_aaa, T_empty>>, <<T_empty, T_empty>> }

InitLongQuery == InitDir(LongRowPool)

NextLongQuery ==
  \/ \E max_results \in 0..MaxK : Search(LongQuery, "style", max_results)
  \/ \E max_results \in 0..MaxK : SearchStack(LongQuery, "react", max_results)
  \/ Return

SpecLongQuery == InitLongQuery /\ [][NextLongQuery]_vars

(***************************************************************************)
(* detect_domain called on queries of up to MaxWords words.                *)
(***************************************************************************)
DetectWords == {
  <<"c","o","l","o","r">>,
  <<"c","h","a","r","t">>,
  <<"u","x">>,
  <<"d","a","r","k"," ","m","o","d","e">>,
  <<"A","c","c","e","s","s","i","b","i","l","i","t","y">>,
  <<"z","z","z">>,
  <<"l","a","n","d","i","n","g"," ","p","a","g","e">>,
  <<"h","e","a","l","t","h","c","a","r","e">>,
  <<"U","I">>,
  <<"q","u","i","c","k">> }

DetectQueries == {join(ws) : ws \in SeqsUpTo(DetectWords, MaxWords)}

InitDetect ==
  /\ IndexIdle
  /\ mono = IdleMono
  /\ fs = <<>>
  /\ call = [op |-> "none"]
  /\ result = <<>>
  /\ locals = NoLocals

DetectDomain(query) ==
  /\ call.op = "none"
  /\ call' = [op |-> "detect_domain", query |-> query]
  /\ result' = [domain |-> detect_domain(query)]
  /\ UNCHANGED <<indexVars, fs, locals, mono>>

NextDetect ==
  \/ \E query \in DetectQueries \cup {Q_darkMode} : DetectDomain(query)
  \/ Return

SpecDetect == InitDetect /\ [][NextDetect]_vars

\* the order in which the domains are declared
DeclaredOrder == <<"color", "chart", "landing", "product", "prompt", "quick", "style", "ux">>

\* the keywords of domain d
KeywordsOf(d) ==
  domain_keywords[CHOOSE i \in DOMAIN domain_keywords : domain_keywords[i].domain = d].keywords

\* how many keywords of domain d occur in the lowercased query
Hits(d, query) ==
  Cardinality({k \in DOMAIN KeywordsOf(d) :
                 \E i \in 1..(Len(query) - Len(KeywordsOf(d)[k]) + 1) :
                   SubSeq(lower(query), i, i + Len(KeywordsOf(d)[k]) - 1) = KeywordsOf(d)[k]})

\* C4: detect_domain returns the domain with the most keywords in the
\* lowercased query, the first declared one among equals, "style" when no
\* keyword occurs; the value is always a key of CSV_CONFIG.
C4_DetectDomain ==
  (call.op = "detect_domain") =>
    /\ result.domain \in DOMAIN CSV_CONFIG
    /\ IF \A d \in Range(DeclaredOrder) : Hits(d, call.query) = 0
       THEN result.domain = "style"
       ELSE \E i \in DOMAIN DeclaredOrder :
              /\ result.domain = DeclaredOrder[i]
              /\ \A j \in DOMAIN DeclaredOrder :
                   Hits(DeclaredOrder[j], call.query) <= Hits(DeclaredOrder[i], call.query)
              /\ \A j \in 1..(i - 1) :
                   Hits(DeclaredOrder[j], call.query) < Hits(DeclaredOrder[i], call.query)

\* two domains share the largest count and the first declared one is returned
C4_Witness ==
  /\ call.op = "detect_domain"
  /\ result.domain = "chart"
  /\ Hits("chart", call.query) = 1
  /\ Hits("ux", call.query) = 1
  /\ Hits("color", call.query) = 0

=============================================================================
